---------------------------- MODULE Spec2Model ----------------------------
(***************************************************************************)
(* A model of tasks.py, the Invoke task file of nautobot-plugin-nornir:    *)
(* the truthy parser is_truthy, the compose-command composer               *)
(* docker_compose, the dispatch helper run_command, the task wrappers and  *)
(* the aggregate task tests.                                               *)
(*                                                                         *)
(* Representation of Python strings.                                       *)
(*   Chars: a sequence of one-character strings.  Used where the code      *)
(*          looks inside a string (str.lower, the substring test `in`).    *)
(*   Text:  a sequence of fragments (TLA+ strings); concatenation of       *)
(*          Python strings and f-string interpolation are \o.  The empty   *)
(*          Python string is the empty sequence.  Used for command lines,  *)
(*          paths and option values, which the code only concatenates.     *)
(***************************************************************************)
EXTENDS Integers, Sequences, FiniteSets, TLC

VARIABLES
    config,     \* context.nautobot_plugin_nornir, the configuration record
    fs,         \* the filesystem: resolved path -> "file" | "dir" | "absent"
    running,    \* the managed environment: the set of services that are running
    pc,         \* position of the (single, synchronous) process
    top,        \* the task named on the command line ("" before the invocation)
    todo,       \* inside tests: the sub-tasks still to call, in order
    call,       \* the task wrapper being run and its arguments
    command,    \* the command string the wrapper built
    runs,       \* every context.run call so far, in order, with its result
    ret,        \* the value the last finished run_command returned
    raised,     \* the exception propagating out of the process ("" if none)
    printed,    \* the status lines printed so far
    issued,     \* history: (form, target service running?) at each final command
    changes,    \* how many times the environment has changed under the process
    arg,        \* is_truthy: the argument under test
    truthy      \* is_truthy: the outcome for arg

vars == <<config, fs, running, pc, top, todo, call, command, runs, ret, raised,
          printed, issued, changes, arg, truthy>>

-----------------------------------------------------------------------------
(* Bounds of the model *)

\* longest arbitrary string handed to is_truthy
MaxStrLen == 2
\* longest configured compose_files list
MaxFiles == 2
\* most changes others make to the environment while one task runs
MaxEnvChanges == 2

-----------------------------------------------------------------------------
(* Python values *)

PyBool(b) == [type |-> "bool", b |-> b, s |-> <<>>]
PyStr(s) == [type |-> "str", b |-> FALSE, s |-> s]

\* the outcome of a call: a returned value or a raised exception
Returned(v) == [raised |-> "", value |-> v]
Raised(e) == [raised |-> e, value |-> 0]

RECURSIVE Flatten(_)
\* concatenation of a sequence of sequences
Flatten(ss) == IF ss = <<>> THEN <<>> ELSE Head(ss) \o Flatten(Tail(ss))

\* Python's `needle in hay` on strings: needle occurs as a contiguous substring
Contains(hay, needle) ==
    \E i \in 1..(Len(hay) - Len(needle) + 1) :
        SubSeq(hay, i, i + Len(needle) - 1) = needle

-----------------------------------------------------------------------------
(* is_truthy, tasks.py lines 8-20, and distutils.util.strtobool *)

LowerCase == <<"a", "e", "f", "l", "n", "o", "r", "s", "t", "u", "y">>
UpperCase == <<"A", "E", "F", "L", "N", "O", "R", "S", "T", "U", "Y">>
OtherChars == {"0", "1", "2", " "}
Alphabet == {LowerCase[i] : i \in 1..Len(LowerCase)}
            \cup {UpperCase[i] : i \in 1..Len(UpperCase)} \cup OtherChars

\* str.lower on one character
lower_char(c) ==
    IF \E i \in 1..Len(UpperCase) : UpperCase[i] = c
    THEN LowerCase[CHOOSE i \in 1..Len(UpperCase) : UpperCase[i] = c]
    ELSE c

\* str.upper on one character
upper_char(c) ==
    IF \E i \in 1..Len(LowerCase) : LowerCase[i] = c
    THEN UpperCase[CHOOSE i \in 1..Len(LowerCase) : LowerCase[i] = c]
    ELSE c

\* a mutant of lower: the case is left as it is
lower_Identity(s) == s

\* str.lower
lower(s) == [i \in 1..Len(s) |-> lower_char(s[i])]

TrueTokens == { <<"y">>, <<"y", "e", "s">>, <<"t">>, <<"t", "r", "u", "e">>,
                <<"o", "n">>, <<"1">> }
FalseTokens == { <<"n">>, <<"n", "o">>, <<"f">>, <<"f", "a", "l", "s", "e">>,
                 <<"o", "f", "f">>, <<"0">> }

\* distutils.util.strtobool: 1, 0 or ValueError
strtobool(val) ==
    LET v == lower(val) IN
    IF v \in TrueTokens THEN Returned(1)
    ELSE IF v \in FalseTokens THEN Returned(0)
    ELSE Raised("ValueError")

\* a mutant of is_truthy: the outcome is negated
is_truthy_Negated(a) ==
    IF a.type = "bool" THEN Returned(~a.b)
    ELSE LET r == strtobool(a.s) IN
         IF r.raised # "" THEN r ELSE Returned(r.value = 0)

\* is_truthy(arg): a bool is returned as it is, a string goes through strtobool
is_truthy(a) ==
    IF a.type = "bool" THEN Returned(a.b)
    ELSE LET r == strtobool(a.s) IN
         IF r.raised # "" THEN r ELSE Returned(r.value # 0)

-----------------------------------------------------------------------------
(* The configuration, tasks.py lines 26-37 *)

ProjectName == <<"nautobot_plugin_nornir">>
NautobotVer == <<"v1.0.0a1">>
PythonVer == <<"3.6">>
\* os.path.join(os.path.dirname(__file__), "development")
ComposeDir == <<"/", "repo", "/", "development">>
ComposeYml == <<"docker-compose.yml">>
OverrideYml == <<"..", "/", "docker-compose.override.yml">>
DefaultComposeFiles == <<ComposeYml, OverrideYml>>

\* the values of the local flag the model runs with: the default False, and
\* values set in invoke.yml or by INVOKE_NAUTOBOT_PLUGIN_NORNIR_LOCAL
LocalValues == { PyBool(FALSE), PyBool(TRUE), PyStr(<<"Y", "e", "s">>),
                 PyStr(<<"o", "f", "f">>), PyStr(<<"2">>) }

Config(local, dir, files) ==
    [ nautobot_ver |-> NautobotVer, project_name |-> ProjectName,
      python_ver |-> PythonVer, local |-> local, compose_dir |-> dir,
      compose_files |-> files ]

-----------------------------------------------------------------------------
(* docker_compose, tasks.py lines 59-78 *)

\* os.path.join(a, b) for POSIX paths
os_path_join(a, b) ==
    IF b # <<>> /\ b[1] = "/" THEN b
    ELSE IF a = <<>> \/ a[Len(a)] = "/" THEN a \o b
    ELSE a \o <<"/">> \o b

\* a mutant of isfile: the existence check is dropped
isfile_Always(f, path) == TRUE

\* os.path.isfile(path): the path names a regular file
isfile(f, path) == path \in DOMAIN f /\ f[path] = "file"

\* f' -f "{compose_file_path}"'
FileClause(path) == <<" -f \"">> \o path \o <<"\"">>

RECURSIVE ComposeFileClauses(_, _, _)
\* the loop of lines 72-75 over the compose files that are left
ComposeFileClauses(f, dir, files) ==
    IF files = <<>> THEN <<>>
    ELSE LET compose_file_path == os_path_join(dir, Head(files)) IN
         (IF isfile(f, compose_file_path) THEN FileClause(compose_file_path) ELSE <<>>)
         \o ComposeFileClauses(f, dir, Tail(files))

\* line 71: the command line up to the project directory
ComposePrefix(cfg) ==
    <<"docker-compose --project-name ">> \o cfg.project_name
    \o <<" --project-directory \"">> \o cfg.compose_dir \o <<"\"">>

\* lines 71-76: the command line docker_compose builds
compose_command(cfg, f, cmd) ==
    ComposePrefix(cfg) \o ComposeFileClauses(f, cfg.compose_dir, cfg.compose_files)
    \o <<" ">> \o cmd

\* lines 67-70
build_env(cfg) ==
    { <<"NAUTOBOT_VER", cfg.nautobot_ver>>, <<"PYTHON_VER", cfg.python_ver>> }

\* a context.run call that has started and not yet returned
Started(cmd, env, opts) ==
    [ cmd |-> cmd, env |-> env, opts |-> opts, state |-> "running",
      exited |-> 0, stdout |-> <<>> ]

\* line 78: context.run(compose_command, env=build_env, **kwargs)
docker_compose(cfg, f, cmd, kwargs) ==
    Started(compose_command(cfg, f, cmd), build_env(cfg), kwargs)

\* line 77: print(f'Running docker-compose command "{command}"')
ComposeStatusLine(cmd) == <<"Running docker-compose command \"">> \o cmd \o <<"\"">>

-----------------------------------------------------------------------------
(* The managed environment: the services docker-compose knows, in the order *)
(* `docker-compose ps --services` lists them                                *)

Nautobot == <<"n", "a", "u", "t", "o", "b", "o", "t">>
NautobotWorker == Nautobot \o <<"-", "w", "o", "r", "k", "e", "r">>
Services == <<Nautobot, NautobotWorker>>
ServiceNames == {Services[i] : i \in 1..Len(Services)}

\* stdout of `docker-compose ps --services --filter status=running`:
\* one line for each running service
PsOutput(up) ==
    Flatten([i \in 1..Len(Services) |->
                IF Services[i] \in up THEN Services[i] \o <<"\n">> ELSE <<>>])

-----------------------------------------------------------------------------
(* run_command, tasks.py lines 81-94 *)

\* line 87
docker_compose_status == <<"ps --services --filter status=running">>

\* a mutant of ExecOrRun: the two forms are exchanged
ExecOrRun_Swapped(stdout, cmd) ==
    IF Contains(stdout, Nautobot)
    THEN <<"run --entrypoint '">> \o cmd \o <<"' nautobot">>
    ELSE <<"exec nautobot ">> \o cmd

\* lines 89-92: the command for the composer, chosen by the query's output
ExecOrRun(stdout, cmd) ==
    IF Contains(stdout, Nautobot)
    THEN <<"exec nautobot ">> \o cmd
    ELSE <<"run --entrypoint '">> \o cmd \o <<"' nautobot">>

\* a mutant of QueryStdout: the services are looked up again when the final
\* command is built
QueryStdout_Recheck(results, now) == PsOutput(now)

\* line 89: results.stdout, the output captured when the query ran; the state
\* of the environment at the time of the choice (now) is not consulted
QueryStdout(results, now) == results.stdout

\* Python's None
None == [type |-> "NoneType", exited |-> 0, stdout |-> <<>>]

\* no value: the call has not returned
Unset == [type |-> "unset", exited |-> 0, stdout |-> <<>>]

\* the Result object of a finished context.run
Result(r) == [type |-> "Result", exited |-> r.exited, stdout |-> r.stdout]

\* a mutant of run_command_return: the result of the execution is returned
run_command_return_Result(result) == result

\* run_command has no return statement (lines 84 and 94): it returns None
run_command_return(result) == None

\* a mutant of ExitRaises: a failed command is only warned about (warn=True)
ExitRaises_Warn(code) == FALSE

\* context.run raises UnexpectedExit when the command exits nonzero; no call
\* in tasks.py passes warn=True and none catches the exception
ExitRaises(code) == code # 0

ExitCodes == {0, 1}

-----------------------------------------------------------------------------
(* The commands of the task wrappers, tasks.py lines 100-282 *)

\* a mutant of build_command: the cache flag is read the wrong way round
build_command_CacheInverted(force_rm, cache) ==
    <<"build">> \o (IF cache THEN <<" --no-cache">> ELSE <<>>)
                \o (IF force_rm THEN <<" --force-rm">> ELSE <<>>)

\* build, lines 108-113
build_command(force_rm, cache) ==
    <<"build">> \o (IF ~cache THEN <<" --no-cache">> ELSE <<>>)
                \o (IF force_rm THEN <<" --force-rm">> ELSE <<>>)

\* create_user, line 178
create_user_command(user) ==
    <<"nautobot-server createsuperuser --username ">> \o user

\* makemigrations, lines 189-192
makemigrations_command(name) ==
    <<"nautobot-server makemigrations nautobot_plugin_nornir">>
    \o (IF name # <<>> THEN <<" --name ">> \o name ELSE <<>>)

\* unittest, lines 210-217
unittest_command(keepdb, label, failfast, buffer) ==
    <<"coverage run --module nautobot.core.cli test ">> \o label
    \o (IF keepdb THEN <<" --keepdb">> ELSE <<>>)
    \o (IF failfast THEN <<" --failfast">> ELSE <<>>)
    \o (IF buffer THEN <<" --buffer">> ELSE <<>>)

\* black, lines 235-240
black_command(autoformat) ==
    (IF autoformat THEN <<"black">> ELSE <<"black --check --diff">>) \o <<" .">>

nbshell_command == <<"nautobot-server nbshell">>
cli_command == <<"bash">>
pylint_command ==
    <<"pylint --init-hook \"import nautobot; nautobot.setup()\" --rcfile pyproject.toml nautobot_plugin_nornir">>
pydocstyle_command == <<"pydocstyle --config=.pydocstyle.ini .">>
bandit_command == <<"bandit --recursive . --configfile .bandit.yml">>
flake8_command == <<"flake8 .">>
yamllint_command == <<"yamllint . --format standard">>

\* the default values of the wrappers' parameters
DefaultArgs ==
    [ force_rm |-> FALSE, cache |-> TRUE, user |-> <<"admin">>, name |-> <<>>,
      keepdb |-> FALSE, label |-> <<"nautobot_plugin_nornir">>, failfast |-> FALSE,
      buffer |-> TRUE, autoformat |-> FALSE ]

\* the values given on the command line for the string parameters
Users == { <<"admin">>, <<"alice">>, <<>> }
MigrationNames == { <<>>, <<"initial">> }
Labels == { <<"nautobot_plugin_nornir">>, <<"nautobot_plugin_nornir.tests">>, <<>> }

\* tests, lines 289-302: the sub-tasks in call order, each with the line
\* printed before it
TestSequence ==
    << [task |-> "black", banner |-> <<"Running black...">>],
       [task |-> "bandit", banner |-> <<"Running bandit...">>],
       [task |-> "pydocstyle", banner |-> <<"Running pydocstyle...">>],
       [task |-> "yamllint", banner |-> <<"Running yamllint...">>],
       [task |-> "flake8", banner |-> <<"Running flake8...">>],
       [task |-> "pylint", banner |-> <<"Running pylint...">>],
       [task |-> "unittest", banner |-> <<"Running unit tests...">>] >>

AllPassedLine == <<"All tests have passed!">>

-----------------------------------------------------------------------------
(* The process: one invocation of one task *)

LastRun == runs[Len(runs)]

\* the running context.run call returns with an exit code and its output
Finish(code, out) ==
    [runs EXCEPT ![Len(runs)] =
        [@ EXCEPT !.state = "exited", !.exited = code, !.stdout = out]]

\* where a wrapper goes when its helper has returned
AfterHelper == IF top = "tests" THEN "tests" ELSE "done"

\* "exec", "run": the form of a command handed to the composer for cmd
FormOf(cc, cmd) ==
    IF cc = <<"exec nautobot ">> \o cmd THEN "exec"
    ELSE IF cc = <<"run --entrypoint '">> \o cmd \o <<"' nautobot">> THEN "run"
    ELSE "other"

\* A task wrapper is called either as the task named on the command line,
\* with the arguments given there, or as the next sub-task of tests, with its
\* defaults.
Called(name, a) ==
    \/ pc = "idle"
    \/ /\ pc = "tests"
       /\ todo # <<>>
       /\ Head(todo).task = name
       /\ a = DefaultArgs

\* The wrapper runs up to the call of its helper: it prints its status lines
\* (after the line tests prints before the call) and builds its command.
Enter(name, a, cmd, helper, status) ==
    /\ top' = IF pc = "idle" THEN name ELSE top
    /\ todo' = IF pc = "idle" THEN <<>> ELSE Tail(todo)
    /\ printed' = printed \o (IF pc = "idle" THEN <<>> ELSE <<Head(todo).banner>>)
                          \o status
    /\ call' = [task |-> name, args |-> a]
    /\ command' = cmd
    /\ ret' = Unset
    /\ pc' = helper
    /\ UNCHANGED <<config, fs, running, runs, raised, issued, changes, arg, truthy>>

build(force_rm, cache) ==
    LET a == [DefaultArgs EXCEPT !.force_rm = force_rm, !.cache = cache] IN
    /\ Called("build", a)
    /\ Enter("build", a, build_command(force_rm, cache), "docker_compose",
             << <<"Building Nautobot with Python ">> \o config.python_ver \o <<"...">> >>)

debug ==
    LET a == DefaultArgs IN
    /\ Called("debug", a)
    /\ Enter("debug", a, <<"up">>, "docker_compose",
             << <<"Starting Nautobot in debug mode...">> >>)

start ==
    LET a == DefaultArgs IN
    /\ Called("start", a)
    /\ Enter("start", a, <<"up --detach">>, "docker_compose",
             << <<"Starting Nautobot in detached mode...">> >>)

stop ==
    LET a == DefaultArgs IN
    /\ Called("stop", a)
    /\ Enter("stop", a, <<"down">>, "docker_compose", << <<"Stopping Nautobot...">> >>)

destroy ==
    LET a == DefaultArgs IN
    /\ Called("destroy", a)
    /\ Enter("destroy", a, <<"down --volumes">>, "docker_compose",
             << <<"Destroying Nautobot...">> >>)

nbshell ==
    LET a == DefaultArgs IN
    /\ Called("nbshell", a)
    /\ Enter("nbshell", a, nbshell_command, "run_command", <<>>)

cli ==
    LET a == DefaultArgs IN
    /\ Called("cli", a)
    /\ Enter("cli", a, cli_command, "run_command", <<>>)

create_user(user) ==
    LET a == [DefaultArgs EXCEPT !.user = user] IN
    /\ Called("create_user", a)
    /\ Enter("create_user", a, create_user_command(user), "run_command", <<>>)

makemigrations(name) ==
    LET a == [DefaultArgs EXCEPT !.name = name] IN
    /\ Called("makemigrations", a)
    /\ Enter("makemigrations", a, makemigrations_command(name), "run_command", <<>>)

unittest(keepdb, label, failfast, buffer) ==
    LET a == [DefaultArgs EXCEPT !.keepdb = keepdb, !.label = label, !.failfast = failfast, !.buffer = buffer] IN
    /\ Called("unittest", a)
    /\ Enter("unittest", a, unittest_command(keepdb, label, failfast, buffer), "run_command",
             <<>>)

pylint ==
    LET a == DefaultArgs IN
    /\ Called("pylint", a)
    /\ Enter("pylint", a, pylint_command, "run_command", <<>>)

black(autoformat) ==
    LET a == [DefaultArgs EXCEPT !.autoformat = autoformat] IN
    /\ Called("black", a)
    /\ Enter("black", a, black_command(autoformat), "run_command", <<>>)

pydocstyle ==
    LET a == DefaultArgs IN
    /\ Called("pydocstyle", a)
    /\ Enter("pydocstyle", a, pydocstyle_command, "run_command", <<>>)

bandit ==
    LET a == DefaultArgs IN
    /\ Called("bandit", a)
    /\ Enter("bandit", a, bandit_command, "run_command", <<>>)

flake8 ==
    LET a == DefaultArgs IN
    /\ Called("flake8", a)
    /\ Enter("flake8", a, flake8_command, "run_command", <<>>)

yamllint ==
    LET a == DefaultArgs IN
    /\ Called("yamllint", a)
    /\ Enter("yamllint", a, yamllint_command, "run_command", <<>>)

\* tests, line 286: the aggregate task starts
tests ==
    /\ pc = "idle"
    /\ top' = "tests"
    /\ todo' = TestSequence
    /\ pc' = "tests"
    /\ UNCHANGED <<config, fs, running, call, command, runs, ret, raised, printed,
                   issued, changes, arg, truthy>>

\* tests, line 304: every sub-task has returned
tests_passed ==
    /\ pc = "tests"
    /\ todo = <<>>
    /\ printed' = printed \o <<AllPassedLine>>
    /\ pc' = "done"
    /\ UNCHANGED <<config, fs, running, top, todo, call, command, runs, ret, raised,
                   issued, changes, arg, truthy>>

-----------------------------------------------------------------------------
(* The helpers, run to each blocking context.run call and from its return *)

\* docker_compose called by a lifecycle task (lines 116-147): the status line
\* is printed and the command starts
compose_direct ==
    /\ pc = "docker_compose"
    /\ printed' = Append(printed, ComposeStatusLine(command))
    /\ runs' = Append(runs, docker_compose(config, fs, command, {}))
    /\ pc' = "direct_wait"
    /\ UNCHANGED <<config, fs, running, top, todo, call, command, ret, raised,
                   issued, changes, arg, truthy>>

\* the lifecycle task's command returns
direct_exit(code) ==
    /\ pc = "direct_wait"
    /\ runs' = Finish(code, <<>>)
    /\ IF ExitRaises(code)
       THEN raised' = "UnexpectedExit" /\ pc' = "failed"
       ELSE raised' = raised /\ pc' = AfterHelper
    /\ UNCHANGED <<config, fs, running, top, todo, call, command, ret, printed,
                   issued, changes, arg, truthy>>

\* run_command, line 83: the local flag is no truthy string
run_command_invalid ==
    /\ pc = "run_command"
    /\ is_truthy(config.local).raised # ""
    /\ raised' = is_truthy(config.local).raised
    /\ pc' = "failed"
    /\ UNCHANGED <<config, fs, running, top, todo, call, command, runs, ret,
                   printed, issued, changes, arg, truthy>>

\* run_command, lines 83-84: local mode, the command starts on the host
run_command_local ==
    /\ pc = "run_command"
    /\ is_truthy(config.local) = Returned(TRUE)
    /\ runs' = Append(runs, Started(command, {}, {}))
    /\ pc' = "local_wait"
    /\ UNCHANGED <<config, fs, running, top, todo, call, command, ret, raised,
                   printed, issued, changes, arg, truthy>>

\* run_command, line 84: the local command returns
local_exit(code) ==
    /\ pc = "local_wait"
    /\ runs' = Finish(code, <<>>)
    /\ IF ExitRaises(code)
       THEN raised' = "UnexpectedExit" /\ pc' = "failed" /\ ret' = ret
       ELSE /\ raised' = raised
            /\ ret' = run_command_return(Result(runs'[Len(runs)]))
            /\ pc' = AfterHelper
    /\ UNCHANGED <<config, fs, running, top, todo, call, command, printed,
                   issued, changes, arg, truthy>>

\* run_command, lines 87-88: the running-services query starts
run_command_query ==
    /\ pc = "run_command"
    /\ is_truthy(config.local) = Returned(FALSE)
    /\ printed' = Append(printed, ComposeStatusLine(docker_compose_status))
    /\ runs' = Append(runs, docker_compose(config, fs, docker_compose_status,
                                            {<<"hide", "out">>}))
    /\ pc' = "query_wait"
    /\ UNCHANGED <<config, fs, running, top, todo, call, command, ret, raised,
                   issued, changes, arg, truthy>>

\* line 88: the query returns; its output lists the services running now
query_exit(code) ==
    /\ pc = "query_wait"
    /\ runs' = Finish(code, IF code = 0 THEN PsOutput(running) ELSE <<>>)
    /\ IF ExitRaises(code)
       THEN raised' = "UnexpectedExit" /\ pc' = "failed"
       ELSE raised' = raised /\ pc' = "choose"
    /\ UNCHANGED <<config, fs, running, top, todo, call, command, ret, printed,
                   issued, changes, arg, truthy>>

\* lines 89-94: the form is chosen from the captured output and the final
\* command starts
run_command_final ==
    /\ pc = "choose"
    /\ LET results == Result(LastRun)
           cc == ExecOrRun(QueryStdout(results, running), command)
       IN /\ printed' = Append(printed, ComposeStatusLine(cc))
          /\ runs' = Append(runs, docker_compose(config, fs, cc, {<<"pty", "True">>}))
          /\ issued' = issued \cup {<<FormOf(cc, command), Nautobot \in running>>}
    /\ pc' = "final_wait"
    /\ UNCHANGED <<config, fs, running, top, todo, call, command, ret, raised,
                   changes, arg, truthy>>

\* line 94: the final command returns
final_exit(code) ==
    /\ pc = "final_wait"
    /\ runs' = Finish(code, <<>>)
    /\ IF ExitRaises(code)
       THEN raised' = "UnexpectedExit" /\ pc' = "failed" /\ ret' = ret
       ELSE /\ raised' = raised
            /\ ret' = run_command_return(Result(runs'[Len(runs)]))
            /\ pc' = AfterHelper
    /\ UNCHANGED <<config, fs, running, top, todo, call, command, printed,
                   issued, changes, arg, truthy>>

-----------------------------------------------------------------------------
(* The environment: services start and stop whenever others make them *)

service_starts(s) ==
    /\ changes < MaxEnvChanges
    /\ s \notin running
    /\ running' = running \cup {s}
    /\ changes' = changes + 1
    /\ UNCHANGED <<config, fs, pc, top, todo, call, command, runs, ret, raised,
                   printed, issued, arg, truthy>>

service_stops(s) ==
    /\ changes < MaxEnvChanges
    /\ s \in running
    /\ running' = running \ {s}
    /\ changes' = changes + 1
    /\ UNCHANGED <<config, fs, pc, top, todo, call, command, runs, ret, raised,
                   printed, issued, arg, truthy>>

-----------------------------------------------------------------------------
(* Spec: one invocation of any task, in every mode, in a changing environment *)

NotCalled == [raised |-> "not called", value |-> 0]

DefaultPaths == { os_path_join(ComposeDir, DefaultComposeFiles[i]) :
                    i \in 1..Len(DefaultComposeFiles) }

Idle ==
    /\ pc = "idle"
    /\ top = ""
    /\ todo = <<>>
    /\ call = [task |-> "", args |-> DefaultArgs]
    /\ command = <<>>
    /\ runs = <<>>
    /\ ret = Unset
    /\ raised = ""
    /\ printed = <<>>
    /\ issued = {}
    /\ changes = 0

Init ==
    /\ Idle
    /\ config \in {Config(l, ComposeDir, DefaultComposeFiles) : l \in LocalValues}
    /\ fs \in [DefaultPaths -> {"file", "absent"}]
    /\ running \in SUBSET ServiceNames
    /\ arg = PyBool(FALSE)
    /\ truthy = NotCalled

Task ==
    \/ \E force_rm, cache \in BOOLEAN : build(force_rm, cache)
    \/ debug
    \/ start
    \/ stop
    \/ destroy
    \/ nbshell
    \/ cli
    \/ \E user \in Users : create_user(user)
    \/ \E name \in MigrationNames : makemigrations(name)
    \/ \E keepdb, failfast, buffer \in BOOLEAN :
          \E label \in Labels : unittest(keepdb, label, failfast, buffer)
    \/ pylint
    \/ \E autoformat \in BOOLEAN : black(autoformat)
    \/ pydocstyle
    \/ bandit
    \/ flake8
    \/ yamllint
    \/ tests
    \/ tests_passed

Helper ==
    \/ compose_direct
    \/ \E code \in ExitCodes : direct_exit(code)
    \/ run_command_invalid
    \/ run_command_local
    \/ \E code \in ExitCodes : local_exit(code)
    \/ run_command_query
    \/ \E code \in ExitCodes : query_exit(code)
    \/ run_command_final
    \/ \E code \in ExitCodes : final_exit(code)

Environment ==
    \E s \in ServiceNames : service_starts(s) \/ service_stops(s)

Next == Task \/ Helper \/ Environment

Spec == Init /\ [][Next]_vars

-----------------------------------------------------------------------------
(* SpecTruthy: is_truthy applied to booleans and to strings *)

\* every spelling of token t in upper and lower case letters
CaseVariants(t) ==
    { [i \in 1..Len(t) |-> IF i \in U THEN upper_char(t[i]) ELSE t[i]] :
        U \in SUBSET (1..Len(t)) }

TokenSpellings == UNION {CaseVariants(t) : t \in TrueTokens \cup FalseTokens}

\* the strings is_truthy is tried on: every string up to MaxStrLen, every
\* spelling of every token, and every spelling with one more character
Strings ==
    UNION {[1..n -> Alphabet] : n \in 0..MaxStrLen}
    \cup TokenSpellings
    \cup UNION {{v \o <<c>>, <<c>> \o v} : v \in TokenSpellings, c \in {" ", "s"}}

TruthyInputs == {PyBool(b) : b \in BOOLEAN} \cup {PyStr(x) : x \in Strings}

InitTruthy ==
    /\ Idle
    /\ config = Config(PyBool(FALSE), ComposeDir, DefaultComposeFiles)
    /\ fs = [p \in DefaultPaths |-> "file"]
    /\ running = {}
    /\ arg \in TruthyInputs
    /\ truthy = NotCalled

\* is_truthy(arg) is called
is_truthy_call ==
    /\ truthy = NotCalled
    /\ truthy' = is_truthy(arg)
    /\ UNCHANGED <<config, fs, running, pc, top, todo, call, command, runs, ret,
                   raised, printed, issued, changes, arg>>

NextTruthy == is_truthy_call

SpecTruthy == InitTruthy /\ [][NextTruthy]_vars

-----------------------------------------------------------------------------
(* SpecCompose: the lifecycle tasks under every configured list of compose *)
(* files and every state of those files on disk                            *)

ExtraYml == <<"/", "etc", "/", "extra.yml">>
FileNames == {ComposeYml, OverrideYml, ExtraYml}
FileLists == UNION {[1..n -> FileNames] : n \in 0..MaxFiles}
FilePaths == {os_path_join(ComposeDir, n) : n \in FileNames}

InitCompose ==
    /\ Idle
    /\ config \in {Config(PyBool(FALSE), ComposeDir, fl) : fl \in FileLists}
    /\ fs \in [FilePaths -> {"file", "dir", "absent"}]
    /\ running = {}
    /\ arg = PyBool(FALSE)
    /\ truthy = NotCalled

NextCompose ==
    \/ \E force_rm, cache \in BOOLEAN : build(force_rm, cache)
    \/ debug
    \/ start
    \/ stop
    \/ destroy
    \/ compose_direct
    \/ \E code \in ExitCodes : direct_exit(code)

SpecCompose == InitCompose /\ [][NextCompose]_vars

-----------------------------------------------------------------------------
(* Properties of is_truthy (SpecTruthy) *)

\* the tokens as the documentation of is_truthy lists them
DocTrue == { <<"y">>, <<"y", "e", "s">>, <<"t">>, <<"t", "r", "u", "e">>,
             <<"o", "n">>, <<"1">> }
DocFalse == { <<"n">>, <<"n", "o">>, <<"f">>, <<"f", "a", "l", "s", "e">>,
              <<"o", "f", "f">>, <<"0">> }
AnyCase(tokens) == UNION {CaseVariants(t) : t \in tokens}

\* C5: is_truthy returns a boolean unchanged; for a string it returns true
\* for every spelling, in any letter case, of y, yes, t, true, on, 1, false
\* for every spelling of n, no, f, false, off, 0, and raises ValueError for
\* every other string.
C5_TruthyParser ==
    truthy # NotCalled =>
        /\ arg.type = "bool" => truthy = Returned(arg.b)
        /\ arg.type = "str" /\ arg.s \in AnyCase(DocTrue) => truthy = Returned(TRUE)
        /\ arg.type = "str" /\ arg.s \in AnyCase(DocFalse) => truthy = Returned(FALSE)
        /\ arg.type = "str" /\ arg.s \notin AnyCase(DocTrue \cup DocFalse)
              => truthy = Raised("ValueError")

\* is_truthy has returned true for a mixed-case spelling of a token
C5_Witness ==
    /\ arg = PyStr(<<"T", "r", "U", "e">>)
    /\ truthy = Returned(TRUE)

-----------------------------------------------------------------------------
(* Properties of docker_compose (SpecCompose) *)

\* the command line up to the project directory, written out
ExpectedPrefix ==
    <<"docker-compose --project-name ", "nautobot_plugin_nornir",
      " --project-directory \"">> \o config.compose_dir \o <<"\"">>

\* the path a configured compose-file name stands for
Resolve(n) ==
    IF n # <<>> /\ n[1] = "/" THEN n ELSE config.compose_dir \o <<"/">> \o n

\* the resolved paths of the configured files that are regular files, in the
\* order of the configured list
ExistingPaths ==
    SelectSeq([i \in 1..Len(config.compose_files) |-> Resolve(config.compose_files[i])],
              LAMBDA p : fs[p] = "file")

RECURSIVE ParseClauses(_)
\* the paths of the -f "<path>" clauses that text is made of, in order;
\* a path of "?" where text is no sequence of such clauses
ParseClauses(text) ==
    IF text = <<>> THEN <<>>
    ELSE IF text[1] # " -f \"" \/ ~ \E k \in 2..Len(text) : text[k] = "\""
    THEN << <<"?">> >>
    ELSE LET k == CHOOSE j \in 2..Len(text) :
                     text[j] = "\"" /\ \A h \in 2..(j - 1) : text[h] # "\""
         IN <<SubSeq(text, 2, k - 1)>> \o ParseClauses(SubSeq(text, k + 1, Len(text)))

\* the command line of the lifecycle task's docker_compose call is the
\* prefix, then some text, then the caller's command fragment
WellFramed(line) ==
    /\ Len(line) >= Len(ExpectedPrefix) + 1 + Len(command)
    /\ SubSeq(line, 1, Len(ExpectedPrefix)) = ExpectedPrefix
    /\ SubSeq(line, Len(line) - Len(command), Len(line)) = <<" ">> \o command

\* what lies between the prefix and the caller's command fragment
Between(line) == SubSeq(line, Len(ExpectedPrefix) + 1, Len(line) - Len(command) - 1)

\* C4: the command line docker_compose builds is the project-name and
\* project-directory prefix, then one -f clause for each configured compose
\* file that exists as a file at call time and none for any other, in the
\* order of the configured list, then the caller's command fragment; a
\* missing file causes no error: the call always goes ahead and the only
\* failure is that of the command itself.
C4_ComposeFileClauses ==
    /\ pc = "docker_compose" => ENABLED compose_direct
    /\ pc \in {"direct_wait", "done", "failed"} =>
          /\ Len(runs) = 1
          /\ WellFramed(runs[1].cmd)
          /\ ParseClauses(Between(runs[1].cmd)) = ExistingPaths
    /\ pc = "failed" => runs[1].exited # 0

\* the list [A, B] with only B on disk: exactly one clause, for B
C4_Witness ==
    /\ pc = "direct_wait"
    /\ config.compose_files = <<ComposeYml, OverrideYml>>
    /\ fs[Resolve(ComposeYml)] = "absent"
    /\ fs[Resolve(OverrideYml)] = "file"
    /\ ParseClauses(Between(runs[1].cmd)) = <<Resolve(OverrideYml)>>

-----------------------------------------------------------------------------
(* Properties of run_command and of the tasks (Spec) *)

\* the tasks that hand their command to run_command
RunCommandTasks ==
    { "nbshell", "cli", "create_user", "makemigrations", "unittest", "pylint",
      "black", "pydocstyle", "bandit", "flake8", "yamllint" }

\* the configured local flag is truthy / is false
LocalOn == config.local \in {PyBool(TRUE), PyStr(<<"Y", "e", "s">>)}
LocalOff == config.local \in {PyBool(FALSE), PyStr(<<"o", "f", "f">>)}

\* how many task wrappers have been entered so far
CallsMade ==
    IF pc = "idle" THEN 0
    ELSE IF top = "tests" THEN 7 - Len(todo)
    ELSE 1

\* the command line is one docker_compose built
IsComposeLine(line) == line # <<>> /\ line[1] = "docker-compose --project-name "

\* the command fragment of a docker_compose command line: what follows the
\* blank after the prefix and the -f clauses
CommandPart(line) ==
    LET k == CHOOSE j \in 1..Len(line) :
                line[j] = " " /\ \A h \in 1..(j - 1) : line[h] # " "
    IN SubSeq(line, k + 1, Len(line))

\* C1: in local mode every call of run_command performs exactly one
\* execution, context.run of the caller's command unchanged and not wrapped
\* in a docker-compose command line; the running-services query and every
\* other docker_compose call are never issued.
C1_LocalRunsDirectly ==
    LocalOn /\ call.task \in RunCommandTasks =>
        /\ pc \notin {"query_wait", "choose", "final_wait"}
        /\ Len(runs) = CallsMade - (IF pc = "run_command" THEN 1 ELSE 0)
        /\ \A i \in 1..Len(runs) :
              /\ ~IsComposeLine(runs[i].cmd)
              /\ runs[i].env = {}
              /\ runs[i].opts = {}
        /\ pc # "run_command" => LastRun.cmd = command

\* cli has run to its end in local mode, the flag given as the string "Yes"
C1_Witness ==
    /\ config.local = PyStr(<<"Y", "e", "s">>)
    /\ top = "cli"
    /\ pc = "done"
    /\ Len(runs) = 1
    /\ runs[1].cmd = <<"bash">>

\* the two forms of the final command, written out
ExecForm(cmd) == <<"exec nautobot ">> \o cmd
RunForm(cmd) == <<"run --entrypoint '">> \o cmd \o <<"' nautobot">>

\* C2: in non-local mode run_command first runs the running-services query
\* through the composer and then, once the query has returned, exactly one
\* further composer command: exec nautobot <command> if the target service
\* name appears in the captured output, run --entrypoint '<command>' nautobot
\* otherwise, and never the other form.
C2_ExecOrRunByQueryOutput ==
    LocalOff /\ call.task \in RunCommandTasks =>
        /\ pc = "run_command" => Len(runs) = 2 * CallsMade - 2
        /\ pc \in {"query_wait", "choose"} => Len(runs) = 2 * CallsMade - 1
        /\ pc \in {"final_wait", "tests", "done"} => Len(runs) = 2 * CallsMade
        /\ pc = "failed" => /\ Len(runs) \in {2 * CallsMade - 1, 2 * CallsMade}
                            /\ LastRun.exited # 0
        /\ \A i \in 1..Len(runs) :
              /\ IsComposeLine(runs[i].cmd)
              /\ i % 2 = 1 =>
                    /\ CommandPart(runs[i].cmd) = <<"ps --services --filter status=running">>
                    /\ runs[i].opts = {<<"hide", "out">>}
              /\ i % 2 = 0 =>
                    /\ runs[i - 1].state = "exited" /\ runs[i - 1].exited = 0
                    /\ runs[i].opts = {<<"pty", "True">>}
                    /\ IF Contains(runs[i - 1].stdout, Nautobot)
                       THEN CommandPart(runs[i].cmd)[1] = "exec nautobot "
                       ELSE CommandPart(runs[i].cmd)[1] = "run --entrypoint '"
        /\ Len(runs) = 2 * CallsMade =>
              CommandPart(LastRun.cmd) =
                 IF Contains(runs[Len(runs) - 1].stdout, Nautobot)
                 THEN ExecForm(command) ELSE RunForm(command)

\* within one run of tests in non-local mode both forms have been issued
C2_Witness ==
    /\ LocalOff
    /\ top = "tests"
    /\ \E i, j \in 1..Len(runs) :
          /\ i % 2 = 0 /\ CommandPart(runs[i].cmd)[1] = "exec nautobot "
          /\ j % 2 = 0 /\ CommandPart(runs[j].cmd)[1] = "run --entrypoint '"

\* the order of the sub-tasks of tests and the commands they run by default
ExpectedTestOrder ==
    <<"black", "bandit", "pydocstyle", "yamllint", "flake8", "pylint", "unittest">>
ExpectedTestCommands ==
    << <<"black --check --diff", " .">>,
       <<"bandit --recursive . --configfile .bandit.yml">>,
       <<"pydocstyle --config=.pydocstyle.ini .">>,
       <<"yamllint . --format standard">>,
       <<"flake8 .">>,
       <<"pylint --init-hook \"import nautobot; nautobot.setup()\" --rcfile pyproject.toml nautobot_plugin_nornir">>,
       <<"coverage run --module nautobot.core.cli test ", "nautobot_plugin_nornir",
         " --buffer">> >>

\* C3: tests runs black, bandit, pydocstyle, yamllint, flake8, pylint,
\* unittest in this order and halts at the first failing command: a command
\* is started only when every command before it has completed successfully,
\* nothing is executed after a failed command, and "All tests have passed!"
\* is printed only when all seven sub-tasks have succeeded; in local and in
\* non-local mode.
C3_TestsHaltAtFirstFailure ==
    top = "tests" =>
        /\ \A i \in 1..Len(runs) :
              \/ runs[i].state = "exited" /\ runs[i].exited = 0
              \/ i = Len(runs) /\ runs[i].state = "running"
              \/ i = Len(runs) /\ runs[i].exited # 0 /\ pc = "failed"
        /\ CallsMade >= 1 =>
              /\ call.task = ExpectedTestOrder[CallsMade]
              /\ command = ExpectedTestCommands[CallsMade]
        /\ LocalOn =>
              /\ Len(runs) \in {CallsMade - 1, CallsMade}
              /\ \A k \in 1..Len(runs) : runs[k].cmd = ExpectedTestCommands[k]
        /\ LocalOff =>
              /\ Len(runs) \in {2 * CallsMade - 2, 2 * CallsMade - 1, 2 * CallsMade} \ {-2}
              /\ \A i \in 1..Len(runs) :
                    i % 2 = 0 =>
                       CommandPart(runs[i].cmd) \in
                          { ExecForm(ExpectedTestCommands[i \div 2]),
                            RunForm(ExpectedTestCommands[i \div 2]) }
        /\ (\E n \in 1..Len(printed) : printed[n] = <<"All tests have passed!">>) =>
              /\ pc = "done"
              /\ CallsMade = 7
              /\ LocalOn \/ LocalOff
              /\ Len(runs) = IF LocalOn THEN 7 ELSE 14
              /\ \A i \in 1..Len(runs) : runs[i].state = "exited" /\ runs[i].exited = 0

\* in non-local mode the third sub-task has failed and the four after it
\* were never started
C3_Witness ==
    /\ top = "tests"
    /\ LocalOff
    /\ pc = "failed"
    /\ call.task = "pydocstyle"
    /\ Len(runs) = 6
    /\ LastRun.exited = 1
    /\ Len(todo) = 4

\* a context.run call is in progress
Waiting == pc \in {"direct_wait", "local_wait", "query_wait", "final_wait"}

\* C6 as stated: a task other than tests issues at most one external command
\* per invocation, in local and in non-local mode.
C6_Original ==
    top \notin {"", "tests"} => Len(runs) <= 1

\* C6 as amended: a task issues at most one external command when it calls
\* the composer itself or when local mode is on, and at most two, the
\* running-services query and then the final command, when it goes through
\* run_command in non-local mode; a command is started only after the one
\* before it has completed successfully, the process waits while a command
\* runs and the task returns only when its last command has completed.
C6_AtMostTwoSequential ==
    top \notin {"", "tests"} =>
        /\ Len(runs) <= IF call.task \in RunCommandTasks /\ ~LocalOn THEN 2 ELSE 1
        /\ \A i \in 1..(Len(runs) - 1) :
              runs[i].state = "exited" /\ runs[i].exited = 0
        /\ Len(runs) = 2 =>
              CommandPart(runs[1].cmd) = <<"ps --services --filter status=running">>
        /\ Len(runs) >= 1 => (LastRun.state = "running" <=> Waiting)
        /\ pc = "done" =>
              /\ Len(runs) >= 1
              /\ \A i \in 1..Len(runs) : runs[i].state = "exited"

\* nbshell has run to its end in non-local mode with two commands
C6_Witness ==
    /\ top = "nbshell"
    /\ LocalOff
    /\ pc = "done"
    /\ Len(runs) = 2
    /\ runs[2].state = "exited"

\* C7 as stated: in local mode run_command returns the result object of its
\* context.run call.
C7_Original ==
    LocalOn /\ call.task \in RunCommandTasks /\ ret # Unset =>
        ret = Result(LastRun)

\* C7 as amended: in local mode run_command executes the command via
\* context.run with the options its caller supplied (none are added) and,
\* when the command has succeeded, returns None: the result object of the
\* execution is dropped.
C7_LocalReturnsNone ==
    LocalOn /\ call.task \in RunCommandTasks =>
        /\ pc = "local_wait" => ret = Unset /\ LastRun = Started(command, {}, {})
        /\ ret # Unset =>
              /\ ret = None
              /\ LastRun.cmd = command
              /\ LastRun.opts = {}
              /\ LastRun.state = "exited"
              /\ LastRun.exited = 0

\* nbshell has returned in local mode
C7_Witness ==
    /\ LocalOn
    /\ top = "nbshell"
    /\ pc = "done"
    /\ ret = None
    /\ Result(LastRun) # None

\* how many times fragment f occurs in text
Count(text, f) == Cardinality({i \in 1..Len(text) : text[i] = f})
Bit(b) == IF b THEN 1 ELSE 0

\* C8 as stated: every boolean flag appends its suffix when it is true and
\* nothing when it is false (build: force_rm, cache; unittest: keepdb,
\* failfast, buffer; black: autoformat), and a string flag is interpolated
\* only when it is non-empty (makemigrations: name).
C8_Original ==
    pc # "idle" =>
        /\ call.task = "build" =>
              /\ Count(command, " --force-rm") = Bit(call.args.force_rm)
              /\ Count(command, " --no-cache") = Bit(call.args.cache)
        /\ call.task = "unittest" =>
              /\ Count(command, " --keepdb") = Bit(call.args.keepdb)
              /\ Count(command, " --failfast") = Bit(call.args.failfast)
              /\ Count(command, " --buffer") = Bit(call.args.buffer)
        /\ call.task = "black" =>
              Count(command, "black --check --diff") = Bit(call.args.autoformat)
        /\ call.task = "makemigrations" =>
              Count(command, " --name ") = Bit(call.args.name # <<>>)

\* C8 as amended: force_rm, keepdb, failfast and buffer append their suffix
\* when true and nothing when false; cache appends " --no-cache" when it is
\* false and nothing when it is true; autoformat chooses "black" when true
\* and "black --check --diff" when false; name is interpolated, after
\* " --name ", only when it is non-empty; label and user are interpolated
\* whatever their value, the empty string included.
C8_FlagsInCommand ==
    pc # "idle" =>
        LET a == call.args IN
        /\ call.task = "build" =>
              /\ command[1] = "build"
              /\ Count(command, " --force-rm") = Bit(a.force_rm)
              /\ Count(command, " --no-cache") = Bit(~a.cache)
              /\ Len(command) = 1 + Bit(a.force_rm) + Bit(~a.cache)
        /\ call.task = "unittest" =>
              /\ SubSeq(command, 1, 1 + Len(a.label)) =
                    <<"coverage run --module nautobot.core.cli test ">> \o a.label
              /\ Count(command, " --keepdb") = Bit(a.keepdb)
              /\ Count(command, " --failfast") = Bit(a.failfast)
              /\ Count(command, " --buffer") = Bit(a.buffer)
              /\ Len(command) = 1 + Len(a.label) + Bit(a.keepdb) + Bit(a.failfast)
                                  + Bit(a.buffer)
        /\ call.task = "black" =>
              command = IF a.autoformat THEN <<"black", " .">>
                        ELSE <<"black --check --diff", " .">>
        /\ call.task = "makemigrations" =>
              command = <<"nautobot-server makemigrations nautobot_plugin_nornir">>
                        \o (IF a.name = <<>> THEN <<>> ELSE <<" --name ">> \o a.name)
        /\ call.task = "create_user" =>
              command = <<"nautobot-server createsuperuser --username ">> \o a.user

\* build called with the cache off and force_rm on
C8_Witness ==
    /\ call.task = "build"
    /\ ~call.args.cache
    /\ call.args.force_rm
    /\ pc = "direct_wait"
    /\ command = <<"build", " --no-cache", " --force-rm">>

\* C9: the form of the final command is fixed by the output captured when
\* the query ran and by nothing later: run_command takes no lock, so a
\* service can be started or stopped at every point between the query and
\* the end of the final command, and it does not look again, so the exec form
\* can be issued while the service has stopped and the run form while the
\* service is running.
C9_FormFixedAtQueryTime ==
    /\ \A i \in 1..Len(runs) :
          IsComposeLine(runs[i].cmd) /\ runs[i].opts = {<<"pty", "True">>} =>
             (CommandPart(runs[i].cmd)[1] = "exec nautobot "
                <=> Contains(runs[i - 1].stdout, Nautobot))
    /\ pc \in {"query_wait", "choose", "final_wait"} /\ changes < MaxEnvChanges =>
          \A s \in ServiceNames : ENABLED service_starts(s) \/ ENABLED service_stops(s)

\* within one run both have happened: the exec form issued with the service
\* stopped, and the run form issued with the service running
C9_Witness ==
    /\ <<"exec", FALSE>> \in issued
    /\ <<"run", TRUE>> \in issued

RECURSIVE SplitLines(_)
\* the set of lines of an output, each ended by a newline
SplitLines(out) ==
    IF ~ \E k \in 1..Len(out) : out[k] = "\n" THEN {}
    ELSE LET k == CHOOSE j \in 1..Len(out) :
                     out[j] = "\n" /\ \A h \in 1..(j - 1) : out[h] # "\n"
         IN {SubSeq(out, 1, k - 1)} \cup SplitLines(SubSeq(out, k + 1, Len(out)))

\* C10: in non-local mode the exec form is chosen only if a service named
\* exactly nautobot is among the services the query lists; a service whose
\* name only contains nautobot does not count.
C10_ExecOnlyIfNautobotListed ==
    \A i \in 1..Len(runs) :
        /\ IsComposeLine(runs[i].cmd)
        /\ runs[i].opts = {<<"pty", "True">>}
        /\ CommandPart(runs[i].cmd)[1] = "exec nautobot "
        => Nautobot \in SplitLines(runs[i - 1].stdout)

=============================================================================
